---------------------------- MODULE Spec2Model ----------------------------
(***************************************************************************)
(* Prediction-and-optimization engine of batterymate-backend:              *)
(*   MLService (app/services/ml_service.py), RangePredictor,               *)
(*   AirQualityPredictor, RouteOptimizer and ChargingOptimizer             *)
(*   (app/ml_models/*.py).                                                 *)
(*                                                                         *)
(* Python floats are modelled as exact rationals [n, d] in lowest terms    *)
(* with d > 0; a dict is a function whose DOMAIN is its key set; a raised  *)
(* exception is a result record with kind = "raise".                       *)
(***************************************************************************)
EXTENDS Integers, Sequences, FiniteSets, TLC

VARIABLES
    instance,              \* MLService._instance: "None" or "obj"
    models_available,      \* MLService.models_available
    range_predictor,       \* MLService.range_predictor: None or a RangePredictor
    air_quality_predictor, \* MLService.air_quality_predictor
    init_outcome,          \* history: the state the last initialize() left
    call,                  \* the Facade call in flight: arguments and outcome
    weights,               \* RouteOptimizer.weights
    sw,                    \* the set_weights call in flight: argument and outcome
    opt,                   \* the optimize_route call in flight
    msr,                   \* the get_multi_stop_route call in flight
    chg,                   \* the find_optimal_charging_time call in flight
    eco,                   \* the calculate_eco_score call in flight
    race,                  \* history: the weights at the start of the
                           \* optimize_route call in flight and those stored since
    boot,                  \* how far create_app has run
    tdb,                   \* the trips table and the user's total_trips
    rl                     \* rate_limit_cache, the clock and the requests in
                           \* the rate_limit wrapper

svcVars == <<instance, models_available, range_predictor, air_quality_predictor,
             init_outcome, call>>

scorerVars == <<weights, sw, opt>>

vars == <<svcVars, scorerVars, msr, chg, eco, race, boot, tdb, rl>>

\* What the operations of one component leave alone.
notSvc == <<scorerVars, msr, chg, eco, race, boot, tdb, rl>>
notScorer == <<svcVars, msr, chg, eco, race, boot, tdb, rl>>
notPlanner == <<svcVars, scorerVars, chg, eco, race, boot, tdb, rl>>
notCharging == <<svcVars, scorerVars, msr, eco, race, boot, tdb, rl>>
notEco == <<svcVars, scorerVars, msr, chg, race, boot, tdb, rl>>
notRace == <<svcVars, msr, chg, eco, boot, tdb, rl>>
notBoot == <<scorerVars, msr, chg, eco, race, tdb, rl>>
notTrips == <<svcVars, scorerVars, msr, chg, eco, race, boot, rl>>
notRate == <<svcVars, scorerVars, msr, chg, eco, race, boot, tdb>>

-----------------------------------------------------------------------------
\* Exact rational arithmetic (the model of Python float arithmetic).

RECURSIVE GCD(_, _)
GCD(a, b) == IF b = 0 THEN a ELSE GCD(b, a % b)

Abs(x) == IF x < 0 THEN -x ELSE x

\* n/d in lowest terms with a positive denominator; d # 0.
Rat(n, d) ==
    LET g == GCD(Abs(n), Abs(d))
        s == IF d < 0 THEN -1 ELSE 1
    IN  [n |-> s * (n \div g), d |-> s * (d \div g)]

I(k) == [n |-> k, d |-> 1]

LCM(a, b) == (a \div GCD(a, b)) * b

RAdd(x, y) ==
    LET l == LCM(x.d, y.d) IN Rat(x.n * (l \div x.d) + y.n * (l \div y.d), l)
RSub(x, y) ==
    LET l == LCM(x.d, y.d) IN Rat(x.n * (l \div x.d) - y.n * (l \div y.d), l)
RMul(x, y) ==
    LET a == Rat(x.n, y.d)
        b == Rat(y.n, x.d)
    IN  [n |-> a.n * b.n, d |-> a.d * b.d]
\* x / y for y # 0 (the callers test for a zero divisor first).
RDiv(x, y) == RMul(x, Rat(y.d, y.n))
RLt(x, y) == LET l == LCM(x.d, y.d) IN x.n * (l \div x.d) < y.n * (l \div y.d)
RLe(x, y) == ~RLt(y, x)
RMax(x, y) == IF RLt(x, y) THEN y ELSE x
RMin(x, y) == IF RLt(y, x) THEN y ELSE x
\* np.clip without its lower bound
Clip_NoLowerBound(x, lo, hi) == RMin(x, hi)
\* np.clip(x, lo, hi)
Clip(x, lo, hi) == RMin(RMax(x, lo), hi)

-----------------------------------------------------------------------------
\* dict helpers

Has(f, k) == k \in DOMAIN f
\* dict.get(k, default)
Get(f, k, default) == IF k \in DOMAIN f THEN f[k] ELSE default
\* the dict f without the keys in ks
Without(f, ks) == [k \in (DOMAIN f) \ ks |-> f[k]]

None == "None"

\* Results of a call: a returned tuple, or a raised exception.
\* path names the code that produced the value: "model", "fallback" (the
\* predictor's formula) or "mock" (the service's own formula).
OkRange(value, conf, path) ==
    [kind |-> "ok", value |-> value, conf |-> conf, level |-> None, path |-> path,
     exc |-> None]
OkAir(pm25, level, path) ==
    [kind |-> "ok", value |-> pm25, conf |-> I(0), level |-> level, path |-> path,
     exc |-> None]
Raise(exc) ==
    [kind |-> "raise", value |-> I(0), conf |-> I(0), level |-> None, path |-> None,
     exc |-> exc]

\* What model.predict does on one call: it raises, or returns a raw value.
InferFails == [raises |-> TRUE, raw |-> I(0)]
InferGives(raw) == [raises |-> FALSE, raw |-> raw]

\* A predictor handle of the service that is None.
NoPredictor == [obj |-> FALSE, model |-> None, model_available |-> FALSE]

-----------------------------------------------------------------------------
\* RangePredictor (app/ml_models/range_predictor.py)

\* RangePredictor.__init__: the model handle is set exactly when loading
\* succeeded; every exception of the load is swallowed by the constructor.
NewRangePredictor(loads) ==
    [obj |-> TRUE, model |-> IF loads THEN "lstm_range_model" ELSE None,
     model_available |-> loads]

FallbackConfidence == Rat(70, 100)
ModelConfidence == Rat(87, 100)
MockConfidence == Rat(75, 100)

\* _predict_fallback with the temperature penalty applied to current_battery
\* before the consumption is subtracted.
RangeFallback_PenaltyFirst(f) ==
    IF ~Has(f, "current_battery") \/ ~Has(f, "distance_km") \/ ~Has(f, "temperature")
    THEN Raise("KeyError")
    ELSE
      LET battery_capacity == Get(f, "battery_capacity", I(60))
          efficiency == Get(f, "efficiency", Rat(14, 100))
      IN  IF battery_capacity.n = 0
          THEN Raise("ZeroDivisionError")
          ELSE
            LET energy_consumed_kwh == RMul(f["distance_km"], efficiency)
                battery_consumption_percent ==
                    RMul(RDiv(energy_consumed_kwh, battery_capacity), I(100))
                penalised ==
                    IF RLt(f["temperature"], I(0))
                    THEN RMul(f["current_battery"], Rat(85, 100))
                    ELSE IF RLt(I(40), f["temperature"])
                         THEN RMul(f["current_battery"], Rat(90, 100))
                         ELSE f["current_battery"]
                adjusted == RSub(penalised, battery_consumption_percent)
            IN  OkRange(Clip(adjusted, I(0), I(100)), FallbackConfidence, "fallback")

\* RangePredictor._predict_fallback
RangeFallback(f) ==
    IF ~Has(f, "current_battery") \/ ~Has(f, "distance_km") \/ ~Has(f, "temperature")
    THEN Raise("KeyError")
    ELSE
      LET battery_capacity == Get(f, "battery_capacity", I(60))
          efficiency == Get(f, "efficiency", Rat(14, 100))
      IN  IF battery_capacity.n = 0
          THEN Raise("ZeroDivisionError")
          ELSE
            LET energy_consumed_kwh == RMul(f["distance_km"], efficiency)
                battery_consumption_percent ==
                    RMul(RDiv(energy_consumed_kwh, battery_capacity), I(100))
                predicted == RSub(f["current_battery"], battery_consumption_percent)
                adjusted ==
                    IF RLt(f["temperature"], I(0)) THEN RMul(predicted, Rat(85, 100))
                    ELSE IF RLt(I(40), f["temperature"]) THEN RMul(predicted, Rat(90, 100))
                    ELSE predicted
            IN  OkRange(Clip(adjusted, I(0), I(100)), FallbackConfidence, "fallback")

\* The keys _predict_with_model subscripts without a default.
RangeModelKeys ==
    {"current_battery", "temperature", "traffic", "distance_km", "vehicle_age",
     "hour", "day_of_week"}

\* _predict_with_model with the two confidence factors exclusive (elif).
RangeWithModel_OneFactor(f, infer) ==
    IF ~(RangeModelKeys \subseteq DOMAIN f) \/ infer.raises
    THEN RangeFallback(f)
    ELSE
      LET c0 == ModelConfidence
          c2 == IF RLt(I(100), f["distance_km"]) THEN RMul(c0, Rat(95, 100))
                ELSE IF RLt(f["temperature"], I(0)) \/ RLt(I(40), f["temperature"])
                     THEN RMul(c0, Rat(85, 100)) ELSE c0
      IN  OkRange(Clip(infer.raw, I(0), I(100)), c2, "model")

\* RangePredictor._predict_with_model; infer is what model.predict does:
\* "fail" (it raises) or the raw prediction.
RangeWithModel(f, infer) ==
    IF ~(RangeModelKeys \subseteq DOMAIN f) \/ infer.raises
    THEN RangeFallback(f)
    ELSE
      LET c0 == ModelConfidence
          c1 == IF RLt(I(100), f["distance_km"]) THEN RMul(c0, Rat(95, 100)) ELSE c0
          c2 == IF RLt(f["temperature"], I(0)) \/ RLt(I(40), f["temperature"])
                THEN RMul(c1, Rat(85, 100)) ELSE c1
      IN  OkRange(Clip(infer.raw, I(0), I(100)), c2, "model")

\* RangePredictor.predict
RangePredict(p, f, infer) ==
    IF p.model_available /\ p.model # None
    THEN RangeWithModel(f, infer)
    ELSE RangeFallback(f)

-----------------------------------------------------------------------------
\* AirQualityPredictor (app/ml_models/air_quality_predictor.py)

NewAirQualityPredictor(loads) ==
    [obj |-> TRUE, model |-> IF loads THEN "lstm_air_quality_model" ELSE None,
     model_available |-> loads]

\* The classification both paths of the predictor apply.
Band(pm25) ==
    IF RLe(pm25, I(12)) THEN "GOOD"
    ELSE IF RLe(pm25, I(35)) THEN "MODERATE"
    ELSE IF RLe(pm25, I(55)) THEN "UNHEALTHY_FOR_SENSITIVE"
    ELSE IF RLe(pm25, I(150)) THEN "UNHEALTHY"
    ELSE "HAZARDOUS"

\* AirQualityPredictor._predict_fallback
AirFallback(f) ==
    LET pm10 == Get(f, "pm10", I(50))
        base == RMul(pm10, Rat(4, 10))
        wind_speed == Get(f, "wind_speed", I(5))
        windy == IF RLt(I(10), wind_speed) THEN RMul(base, Rat(8, 10)) ELSE base
        pm25 == Clip(windy, I(0), I(500))
    IN  OkAir(pm25, Band(pm25), "fallback")

AirModelKeys ==
    {"pm10", "no2", "o3", "humidity", "wind_speed", "temperature", "cloud_cover"}

\* AirQualityPredictor._predict_with_model
AirWithModel(f, infer) ==
    IF ~(AirModelKeys \subseteq DOMAIN f) \/ infer.raises
    THEN AirFallback(f)
    ELSE LET pm25 == Clip(infer.raw, I(0), I(500)) IN OkAir(pm25, Band(pm25), "model")

\* AirQualityPredictor.predict
AirPredict(p, f, infer) ==
    IF p.model_available /\ p.model # None
    THEN AirWithModel(f, infer)
    ELSE AirFallback(f)

-----------------------------------------------------------------------------
\* MLService (app/services/ml_service.py)

\* _mock_range_prediction with battery_capacity subscripted, not defaulted.
MockRange_NoCapacityDefault(f) ==
    IF ~Has(f, "battery_capacity") THEN Raise("KeyError")
    ELSE
      LET distance_km == Get(f, "distance_km", I(50))
          current_battery == Get(f, "current_battery", I(100))
          max_range == RDiv(f["battery_capacity"], Rat(14, 100))
          predicted ==
              RMax(I(0), RSub(current_battery,
                              RMul(RDiv(distance_km, max_range), I(100))))
          temp == Get(f, "temperature", I(25))
          adjusted ==
              IF RLt(temp, I(0)) THEN RMul(predicted, Rat(85, 100))
              ELSE IF RLt(I(40), temp) THEN RMul(predicted, Rat(90, 100))
              ELSE predicted
      IN  OkRange(adjusted, MockConfidence, "mock")

\* MLService._mock_range_prediction
MockRange(f) ==
    LET distance_km == Get(f, "distance_km", I(50))
        current_battery == Get(f, "current_battery", I(100))
        max_range == RDiv(Get(f, "battery_capacity", I(60)), Rat(14, 100))
    IN  IF max_range.n = 0
        THEN Raise("ZeroDivisionError")
        ELSE
          LET predicted ==
                  RMax(I(0), RSub(current_battery,
                                  RMul(RDiv(distance_km, max_range), I(100))))
              temp == Get(f, "temperature", I(25))
              adjusted ==
                  IF RLt(temp, I(0)) THEN RMul(predicted, Rat(85, 100))
                  ELSE IF RLt(I(40), temp) THEN RMul(predicted, Rat(90, 100))
                  ELSE predicted
          IN  OkRange(adjusted, MockConfidence, "mock")

\* MLService._mock_air_quality_prediction
MockAir(f) == OkAir(I(50), "MODERATE", "mock")

\* MLService.predict_range on a service in state (avail, rp)
ServicePredictRange(avail, rp, f, infer) ==
    IF avail /\ rp.obj
    THEN LET r == RangePredict(rp, f, infer)
         IN  IF r.kind = "ok" THEN r ELSE MockRange(f)
    ELSE MockRange(f)

\* MLService.predict_air_quality on a service in state (avail, ap)
ServicePredictAir(avail, ap, f, infer) ==
    IF avail /\ ap.obj
    THEN LET r == AirPredict(ap, f, infer)
         IN  IF r.kind = "ok" THEN r ELSE MockAir(f)
    ELSE MockAir(f)

-----------------------------------------------------------------------------
\* Inputs of the prediction calls

\* How many of the keys of a full feature dict a caller may leave out.
MaxMissing == 1

EmptyDict == [k \in {} |-> I(0)]

RangeKeys ==
    {"current_battery", "distance_km", "temperature", "vehicle_age",
     "battery_capacity", "efficiency", "traffic", "hour", "day_of_week"}

RangeFull ==
    [current_battery : {I(20), I(80), I(100)},
     distance_km : {I(0), I(50), I(150), I(450)},
     temperature : {I(-5), I(25), I(45)},
     vehicle_age : {I(3)},
     battery_capacity : {I(40), I(60)},
     efficiency : {Rat(14, 100), Rat(20, 100)},
     traffic : {"medium"},
     hour : {I(12)},
     day_of_week : {I(2)}]

RangeFeatures ==
    {Without(f, ks) : f \in RangeFull,
                      ks \in {x \in SUBSET RangeKeys : Cardinality(x) <= MaxMissing}}

RangeInfer == {InferFails, InferGives(I(-10)), InferGives(I(64)), InferGives(I(130))}

AirFull ==
    [pm10 : {I(0), I(30), I(50), I(100), I(1500)},
     wind_speed : {I(5), I(10), I(12)},
     no2 : {I(35)}, o3 : {I(50)}, humidity : {I(65)}, temperature : {I(22)},
     cloud_cover : {I(40)}]

\* The keys the fallback formula never reads.
AirUnread == {"no2", "o3", "humidity", "temperature", "cloud_cover"}

AirFeatures ==
    {Without(f, ks) : f \in AirFull,
                      ks \in {x \in SUBSET AirModelKeys :
                                 Cardinality(x) <= MaxMissing \/ x = AirUnread}}

AirInfer ==
    {InferFails, InferGives(I(-3)), InferGives(I(12)), InferGives(I(36)),
     InferGives(I(600))}

-----------------------------------------------------------------------------
\* The service as a state machine: one caller issues the calls one at a time.

NoResult ==
    [kind |-> "none", value |-> I(0), conf |-> I(0), level |-> None, path |-> None,
     exc |-> None]
Idle == [op |-> "idle", features |-> EmptyDict, infer |-> InferFails,
         result |-> NoResult]

\* The availability state of the service: the flag and the two handles.
\* raised: the initialize() that left it ended in an exception.
Outcome(avail, rp, ap) ==
    [done |-> TRUE, raised |-> FALSE, models_available |-> avail,
     range_predictor |-> rp, air_quality_predictor |-> ap]
NoOutcome ==
    [done |-> FALSE, raised |-> FALSE, models_available |-> FALSE,
     range_predictor |-> NoPredictor, air_quality_predictor |-> NoPredictor]

SvcInit ==
    /\ instance = None
    /\ models_available = FALSE
    /\ range_predictor = NoPredictor
    /\ air_quality_predictor = NoPredictor
    /\ init_outcome = NoOutcome
    /\ call = Idle

\* The attributes MLService.__init__ assigns.
InitFields ==
    /\ models_available' = FALSE
    /\ range_predictor' = NoPredictor
    /\ air_quality_predictor' = NoPredictor

\* MLService(): __new__ makes the instance on the first call and returns the
\* same one afterwards; Python then runs __init__ on what __new__ returned.
New ==
    /\ call.op = "idle"
    /\ instance' = (IF instance = None THEN "obj" ELSE instance)
    /\ InitFields
    /\ UNCHANGED <<init_outcome, call, notSvc>>

\* What the imports inside initialize() raise when they fail.
ImportFailures == {"ImportError", "ModuleNotFoundError", "FileNotFoundError"}

\* initialize() with `except FileNotFoundError` as its only handler.
InitializeCatches_FileNotFoundOnly(exc) == exc = "FileNotFoundError"

\* The handlers of initialize(): `except FileNotFoundError`, then
\* `except Exception`, which the failures above all derive from.
InitializeCatches(exc) == exc = "FileNotFoundError" \/ exc \in ImportFailures

\* ml_service.initialize(): import_ok is whether importing app.ml_models
\* succeeds; rloads / aloads whether each model artifact exists and loads.
\* An exception no handler catches leaves the attributes as they were.
InitializeFields(import_ok, rloads, aloads) ==
    IF import_ok
    THEN /\ range_predictor' = NewRangePredictor(rloads)
         /\ air_quality_predictor' = NewAirQualityPredictor(aloads)
         /\ models_available' = TRUE
         /\ init_outcome' = Outcome(models_available', range_predictor',
                                    air_quality_predictor')
    ELSE \E exc \in ImportFailures :
           /\ models_available' = (models_available /\ ~InitializeCatches(exc))
           /\ UNCHANGED <<range_predictor, air_quality_predictor>>
           /\ init_outcome' =
                 [Outcome(models_available', range_predictor',
                          air_quality_predictor')
                    EXCEPT !.raised = ~InitializeCatches(exc)]

Initialize(import_ok, rloads, aloads) ==
    /\ call.op = "idle"
    /\ instance # None
    /\ InitializeFields(import_ok, rloads, aloads)
    /\ UNCHANGED <<instance, call, notSvc>>

\* The model runs only on a predictor that holds one.
InferChoices(avail, p, outcomes) ==
    IF avail /\ p.obj /\ p.model_available /\ p.model # None
    THEN outcomes ELSE {InferFails}

\* A predictor that gives up its model when inference raised.
PredictorAfterCall_DropsModel(p, infer) ==
    IF p.obj /\ infer.raises
    THEN [p EXCEPT !.model = None, !.model_available = FALSE]
    ELSE p

\* The fields of a predictor after one predict call: predict,
\* _predict_with_model and _predict_fallback assign no attribute.
PredictorAfterCall(p, infer) == p

\* ml_service.predict_range(features)
PredictRange ==
    /\ call.op = "idle"
    /\ instance # None
    /\ \E f \in RangeFeatures :
         \E infer \in InferChoices(models_available, range_predictor, RangeInfer) :
            /\ call' = [op |-> "predict_range", features |-> f, infer |-> infer,
                        result |-> ServicePredictRange(models_available,
                                                       range_predictor, f, infer)]
            /\ range_predictor' = PredictorAfterCall(range_predictor, infer)
    /\ UNCHANGED <<instance, models_available, air_quality_predictor,
                   init_outcome, notSvc>>

\* ml_service.predict_air_quality(features)
PredictAirQuality ==
    /\ call.op = "idle"
    /\ instance # None
    /\ \E f \in AirFeatures :
         \E infer \in InferChoices(models_available, air_quality_predictor, AirInfer) :
            /\ call' = [op |-> "predict_air_quality", features |-> f,
                        infer |-> infer,
                        result |-> ServicePredictAir(models_available,
                                                     air_quality_predictor, f, infer)]
            /\ air_quality_predictor' =
                  PredictorAfterCall(air_quality_predictor, infer)
    /\ UNCHANGED <<instance, models_available, range_predictor,
                   init_outcome, notSvc>>

\* The caller takes the result; the next call may start.
Return ==
    /\ call.op # "idle"
    /\ call' = Idle
    /\ UNCHANGED <<instance, models_available, range_predictor,
                   air_quality_predictor, init_outcome, notSvc>>

SvcNext ==
    \/ New
    \/ \E import_ok, rloads, aloads \in BOOLEAN : Initialize(import_ok, rloads, aloads)
    \/ PredictRange
    \/ PredictAirQuality
    \/ Return

-----------------------------------------------------------------------------
\* create_app (app/__init__.py): the start-up sequence of the application.
\* Importing a module runs its module-level statements once.

BootInit == boot = "start"

\* `from app.services.ml_service import ml_service` runs ml_service.py, whose
\* last statement is `ml_service = MLService()`.
ImportMLService ==
    /\ boot = "start"
    /\ boot' = "service_imported"
    /\ instance' = (IF instance = None THEN "obj" ELSE instance)
    /\ InitFields
    /\ UNCHANGED <<init_outcome, call, notBoot>>

\* `with app.app_context(): ml_service.initialize()`
BootInitialize(import_ok, rloads, aloads) ==
    /\ boot = "service_imported"
    /\ boot' = "initialized"
    /\ InitializeFields(import_ok, rloads, aloads)
    /\ UNCHANGED <<instance, call, notBoot>>

\* `from app.routes.predictions import predictions_bp` runs predictions.py,
\* which binds its own name with `ml_service = MLService()`.
ImportPredictions ==
    /\ boot = "initialized"
    /\ boot' = "predictions_imported"
    /\ instance' = (IF instance = None THEN "obj" ELSE instance)
    /\ InitFields
    /\ UNCHANGED <<init_outcome, call, notBoot>>

\* `from app.routes.air_quality import air_quality_bp`: the same statement in
\* air_quality.py; the blueprints are registered and the app is returned.
ImportAirQuality ==
    /\ boot = "predictions_imported"
    /\ boot' = "serving"
    /\ instance' = (IF instance = None THEN "obj" ELSE instance)
    /\ InitFields
    /\ UNCHANGED <<init_outcome, call, notBoot>>

\* A request handler calls ml_service.predict_range(features).
ServePredictRange == boot = "serving" /\ PredictRange

\* A request handler calls ml_service.predict_air_quality(features).
ServePredictAirQuality == boot = "serving" /\ PredictAirQuality

\* The handler answers the request.
ServeReturn == boot = "serving" /\ Return

StartupNext ==
    \/ ImportMLService
    \/ \E import_ok, rloads, aloads \in BOOLEAN :
          BootInitialize(import_ok, rloads, aloads)
    \/ ImportPredictions
    \/ ImportAirQuality
    \/ ServePredictRange
    \/ ServePredictAirQuality
    \/ ServeReturn

-----------------------------------------------------------------------------
\* RouteOptimizer: set_weights and optimize_route
\* (app/ml_models/route_optimizer.py)

WeightKeys == {"time", "cost", "carbon", "air_quality"}

\* RouteOptimizer.__init__
DefaultWeights == [k \in WeightKeys |-> Rat(25, 100)]

\* sum(d.values()) of a dict of integers
RECURSIVE SumOver(_, _)
SumOver(d, ks) ==
    IF ks = {} THEN 0
    ELSE LET k == CHOOSE x \in ks : TRUE IN d[k] + SumOver(d, ks \ {k})

\* sum of a dict of rationals
RECURSIVE RSumOver(_, _)
RSumOver(d, ks) ==
    IF ks = {} THEN I(0)
    ELSE LET k == CHOOSE x \in ks : TRUE IN RAdd(d[k], RSumOver(d, ks \ {k}))

\* The weights stored as given, not divided by their sum.
Normalized_NotDivided(input, total) == [k \in DOMAIN input |-> I(input[k])]

\* {k: v/total for k, v in weights.items()}, total # 0
Normalized(input, total) == [k \in DOMAIN input |-> Rat(input[k], total)]

\* The largest weight a caller passes.
MaxWeight == 2

WeightInputs ==
    {Without(w, ks) : w \in [WeightKeys -> -1..MaxWeight],
                      ks \in {x \in SUBSET WeightKeys : Cardinality(x) <= MaxMissing}}

\* The longest candidate list.
MaxRoutes == 2

Candidate(t, c, g, a) ==
    [time_minutes |-> t, cost_rupees |-> c, co2_grams |-> g, avg_aqi |-> a]

CandidatePool ==
    {Candidate(30, 50, 2000, 78), Candidate(20, 80, 1500, 90),
     Candidate(20, 50, 2000, 90), Candidate(30, 80, 1500, 78)}

\* Candidate lists; the i-th candidate carries id i, as routes/predictions.py
\* numbers its routes.
RouteLists ==
    UNION {[1..n -> CandidatePool] : n \in 0..MaxRoutes}
RouteId(i) == i

RECURSIVE MinOf(_, _)
MinOf(v, n) == IF n = 1 THEN v[1] ELSE LET m == MinOf(v, n - 1) IN IF v[n] < m THEN v[n] ELSE m
RECURSIVE MaxOf(_, _)
MaxOf(v, n) == IF n = 1 THEN v[1] ELSE LET m == MaxOf(v, n - 1) IN IF v[n] > m THEN v[n] ELSE m

\* (x - x.min()) / (x.max() - x.min() + 1), element i
Norm(v, i) ==
    LET lo == MinOf(v, Len(v))
        hi == MaxOf(v, Len(v))
    IN  Rat(v[i] - lo, hi - lo + 1)

\* scores[i] under the weights w
Score(routes, w, i) ==
    LET times == [j \in 1..Len(routes) |-> routes[j].time_minutes]
        costs == [j \in 1..Len(routes) |-> routes[j].cost_rupees]
        carbons == [j \in 1..Len(routes) |-> routes[j].co2_grams]
        aqis == [j \in 1..Len(routes) |-> routes[j].avg_aqi]
    IN  RAdd(RAdd(RAdd(RMul(w["time"], Norm(times, i)),
                       RMul(w["cost"], Norm(costs, i))),
                  RMul(w["carbon"], Norm(carbons, i))),
             RMul(w["air_quality"], Norm(aqis, i)))

\* np.argmax in place of np.argmin
ArgMin_AsArgMax(routes, w) ==
    CHOOSE i \in 1..Len(routes) :
        /\ \A j \in 1..Len(routes) : RLe(Score(routes, w, j), Score(routes, w, i))
        /\ \A j \in 1..(i - 1) : RLt(Score(routes, w, j), Score(routes, w, i))

\* The last index of a minimum in place of the first.
ArgMin_LastMinimum(routes, w) ==
    CHOOSE i \in 1..Len(routes) :
        /\ \A j \in 1..Len(routes) : RLe(Score(routes, w, i), Score(routes, w, j))
        /\ \A j \in (i + 1)..Len(routes) : RLt(Score(routes, w, i), Score(routes, w, j))

\* The array scores under the weights w
Scores(routes, w) ==
    SubSeq([i \in 1..Len(routes) |-> Score(routes, w, i)], 1, Len(routes))

\* np.argmin(scores): the first index of a minimum
ArgMin(routes, w) ==
    LET scores == Scores(routes, w)
    IN  CHOOSE i \in 1..Len(routes) :
            /\ \A j \in 1..Len(routes) : RLe(scores[i], scores[j])
            /\ \A j \in 1..(i - 1) : RLt(scores[i], scores[j])

SwIdle == [op |-> "idle", input |-> EmptyDict, kind |-> None]
OptIdle == [pc |-> "idle", routes |-> <<>>, read |-> EmptyDict, kind |-> None, id |-> 0]

ScorerInit ==
    /\ weights = DefaultWeights
    /\ sw = SwIdle
    /\ opt = OptIdle

\* A failing set_weights that puts the default weights back.
SetWeights_ResetsOnFailure ==
    /\ sw.op = "idle"
    /\ opt.pc = "idle"
    /\ \E input \in WeightInputs :
         LET total == SumOver(input, DOMAIN input)
         IN  IF total = 0 /\ DOMAIN input # {}
             THEN /\ sw' = [op |-> "set_weights", input |-> input, kind |-> "raise"]
                  /\ weights' = DefaultWeights
             ELSE /\ sw' = [op |-> "set_weights", input |-> input, kind |-> "ok"]
                  /\ weights' = Normalized(input, total)
    /\ UNCHANGED <<opt, notScorer>>

\* optimizer.set_weights(input): the dict comprehension divides before
\* self.weights is assigned, so a ZeroDivisionError leaves it as it was.
SetWeights ==
    /\ sw.op = "idle"
    /\ opt.pc = "idle"
    /\ \E input \in WeightInputs :
         LET total == SumOver(input, DOMAIN input)
         IN  IF total = 0 /\ DOMAIN input # {}
             THEN /\ sw' = [op |-> "set_weights", input |-> input, kind |-> "raise"]
                  /\ UNCHANGED weights
             ELSE /\ sw' = [op |-> "set_weights", input |-> input, kind |-> "ok"]
                  /\ weights' = Normalized(input, total)
    /\ UNCHANGED <<opt, notScorer>>

SwReturn ==
    /\ sw.op # "idle"
    /\ sw' = SwIdle
    /\ UNCHANGED <<weights, opt, notScorer>>

\* The id of the first candidate in place of the sentinel.
NoRouteId_AsFirstId == RouteId(1)

\* `return 0` for an empty candidate list
NoRouteId == 0

\* optimize_route(routes), up to the normalisation of the four metrics
OptStart ==
    /\ opt.pc = "idle"
    /\ sw.op = "idle"
    /\ \E routes \in RouteLists :
         opt' = IF routes = <<>>
                THEN [OptIdle EXCEPT !.pc = "done", !.kind = "ok", !.id = NoRouteId]
                ELSE [OptIdle EXCEPT !.pc = "time", !.routes = routes]
    /\ UNCHANGED <<weights, sw, notScorer>>

\* self.weights['time'] read for every metric
ReadWeight_AlwaysTime(o, w, k, next) ==
    [o EXCEPT !.pc = next,
              !.read = [x \in DOMAIN o.read \cup {k} |->
                           IF x = k THEN w["time"] ELSE o.read[x]]]

\* The call after evaluating self.weights[k] in the score expression, from
\* the weights w stored at that moment: a KeyError ends the call.
ReadWeight(o, w, k, next) ==
    IF k \in DOMAIN w
    THEN [o EXCEPT !.pc = next,
                   !.read = [x \in DOMAIN o.read \cup {k} |->
                                IF x = k THEN w[k] ELSE o.read[x]]]
    ELSE [o EXCEPT !.pc = "done", !.kind = "raise"]

\* self.weights['time'] * time_norm
OptReadTime ==
    /\ opt.pc = "time"
    /\ opt' = ReadWeight(opt, weights, "time", "cost")
    /\ UNCHANGED <<weights, sw, notScorer>>

\* self.weights['cost'] * cost_norm
OptReadCost ==
    /\ opt.pc = "cost"
    /\ opt' = ReadWeight(opt, weights, "cost", "carbon")
    /\ UNCHANGED <<weights, sw, notScorer>>

\* self.weights['carbon'] * carbon_norm
OptReadCarbon ==
    /\ opt.pc = "carbon"
    /\ opt' = ReadWeight(opt, weights, "carbon", "air_quality")
    /\ UNCHANGED <<weights, sw, notScorer>>

\* self.weights['air_quality'] * aqi_norm
OptReadAirQuality ==
    /\ opt.pc = "air_quality"
    /\ opt' = ReadWeight(opt, weights, "air_quality", "argmin")
    /\ UNCHANGED <<weights, sw, notScorer>>

\* best_idx = np.argmin(scores); return routes[best_idx]['id']
OptArgMin ==
    /\ opt.pc = "argmin"
    /\ opt' = [opt EXCEPT !.pc = "done", !.kind = "ok",
                          !.id = RouteId(ArgMin(opt.routes, opt.read))]
    /\ UNCHANGED <<weights, sw, notScorer>>

OptReturn ==
    /\ opt.pc = "done"
    /\ opt' = OptIdle
    /\ UNCHANGED <<weights, sw, notScorer>>

ScorerNext ==
    \/ SetWeights
    \/ SwReturn
    \/ OptStart
    \/ OptReadTime
    \/ OptReadCost
    \/ OptReadCarbon
    \/ OptReadAirQuality
    \/ OptArgMin
    \/ OptReturn

-----------------------------------------------------------------------------
\* One RouteOptimizer shared by two threads: one calls optimize_route, the
\* other set_weights.  The score expression evaluates self.weights once per
\* metric and a thread switch can fall between two evaluations; set_weights
\* builds the new dict and binds self.weights to it in one store.

\* How many set_weights calls complete during one optimize_route call.
MaxRaceWrites == 1

\* The weight sets the second thread passes: at most two metrics counted,
\* the others weighted 0 (none counted: the sum is 0).
RaceWeightInputs ==
    {w \in [WeightKeys -> {0, 1}] : SumOver(w, WeightKeys) <= 2}

\* The candidate lists of the racing optimize_route: two candidates.
RaceRouteLists == [1..2 -> CandidatePool]

RaceIdle == [old |-> EmptyDict, stored |-> <<>>]

RaceInit == race = RaceIdle

\* optimize_route(routes) up to the normalisation, on a non-empty list
RaceOptStart ==
    /\ opt.pc = "idle"
    /\ \E routes \in RaceRouteLists :
         opt' = [OptIdle EXCEPT !.pc = "time", !.routes = routes]
    /\ race' = [old |-> weights, stored |-> <<>>]
    /\ UNCHANGED <<weights, sw, notRace>>

\* set_weights(input) run to completion by the other thread, between two
\* steps of optimize_route or while none is in flight.
RaceSetWeights ==
    /\ opt.pc \in {"idle", "time", "cost", "carbon", "air_quality"}
    /\ opt.pc # "idle" => Len(race.stored) < MaxRaceWrites
    /\ \E input \in RaceWeightInputs :
         LET total == SumOver(input, DOMAIN input)
         IN  IF total = 0
             THEN UNCHANGED <<weights, race>>
             ELSE /\ weights' = Normalized(input, total)
                  /\ race' = IF opt.pc = "idle" THEN race
                             ELSE [race EXCEPT !.stored = Append(@, weights')]
    /\ UNCHANGED <<sw, opt, notRace>>

\* optimize_route returns; the history of the call is dropped.
RaceOptReturn ==
    /\ opt.pc = "done"
    /\ opt' = OptIdle
    /\ race' = RaceIdle
    /\ UNCHANGED <<weights, sw, notRace>>

RaceNext ==
    \/ RaceOptStart
    \/ RaceSetWeights
    \/ OptReadTime
    \/ OptReadCost
    \/ OptReadCarbon
    \/ OptReadAirQuality
    \/ OptArgMin
    \/ RaceOptReturn

-----------------------------------------------------------------------------
\* RouteOptimizer.get_multi_stop_route (app/ml_models/route_optimizer.py)

\* The most stations a caller passes.
MaxStations == 2

\* A dict with lat and lon (start, destination or station), or the list that
\* _find_best_station returns.
Point(tag, lat, lon, battery) ==
    [kind |-> "dict", tag |-> tag, lat |-> lat, lon |-> lon, battery |-> battery,
     items |-> <<>>]
ListOf(items) ==
    [kind |-> "list", tag |-> "list", lat |-> 0, lon |-> 0, battery |-> 0,
     items |-> items]

Starts == {Point("start", 0, 0, b) : b \in {15, 100}}
Destinations == {Point("destination", x, 0, 0) : x \in {3, 10, 20}}
StationPool == {Point("station", x, y, 0) : x \in {4, 12, 16}, y \in {0, 3}}
StationLists == UNION {[1..n -> StationPool] : n \in 0..MaxStations}

\* (lat - lat)**2 + (lon - lon)**2; its square root is what the code compares.
Dist2(a, b) == (a.lat - b.lat) * (a.lat - b.lat) + (a.lon - b.lon) * (a.lon - b.lon)

NearThreshold == 5

\* _near_destination with <= 1 degree as the test
NearDestination_WithinOne(current, dest) == Dist2(current, dest) <= 1

\* RouteOptimizer._near_destination on two dicts: sqrt(d2) < threshold
NearDestination(current, dest) == Dist2(current, dest) < NearThreshold * NearThreshold

\* sorted(stations, key = distance to dest): stable, nearest first
RECURSIVE InsertSorted(_, _, _)
InsertSorted(sorted, x, dest) ==
    IF sorted = <<>> THEN <<x>>
    ELSE IF Dist2(x, dest) < Dist2(Head(sorted), dest)
         THEN <<x>> \o sorted
         ELSE <<Head(sorted)>> \o InsertSorted(Tail(sorted), x, dest)
RECURSIVE SortedByDistance(_, _)
SortedByDistance(stations, dest) ==
    IF stations = <<>> THEN <<>>
    ELSE InsertSorted(SortedByDistance(SubSeq(stations, 1, Len(stations) - 1), dest),
                      stations[Len(stations)], dest)

\* RouteOptimizer._find_best_station: None for no stations, else the whole
\* sorted list (a non-empty list is truthy).
NoStation == [kind |-> "None", tag |-> "None", lat |-> 0, lon |-> 0, battery |-> 0,
              items |-> <<>>]
FindBestStation(current, dest, stations, battery) ==
    IF stations = <<>> THEN NoStation
    ELSE ListOf(SortedByDistance(stations, dest))

MsrIdle ==
    [pc |-> "idle", start |-> NoStation, destination |-> NoStation, stations |-> <<>>,
     route |-> <<>>, current_pos |-> NoStation, current_battery |-> 0,
     kind |-> None]

PlannerInit == msr = MsrIdle

\* get_multi_stop_route(start, destination, available_stations): lines 88-90
MsrStart ==
    /\ msr.pc = "idle"
    /\ \E start \in Starts, dest \in Destinations, stations \in StationLists :
         msr' = [MsrIdle EXCEPT !.pc = "Traveling", !.start = start,
                                !.destination = dest, !.stations = stations,
                                !.route = <<start>>, !.current_pos = start,
                                !.current_battery = start.battery]
    /\ UNCHANGED notPlanner

\* The loop condition: current['lat'] on a list is a TypeError.
MsrCheck ==
    /\ msr.pc = "Traveling"
    /\ msr' = IF msr.current_pos.kind = "list"
              THEN [msr EXCEPT !.pc = "done", !.kind = "raise"]
              ELSE IF NearDestination(msr.current_pos, msr.destination)
                   THEN [msr EXCEPT !.pc = "Arrived"]
                   ELSE [msr EXCEPT !.pc = "SelectStation"]
    /\ UNCHANGED notPlanner

\* The loop body: lines 94-106
MsrSelect ==
    /\ msr.pc = "SelectStation"
    /\ LET best_station == FindBestStation(msr.current_pos, msr.destination,
                                           msr.stations, msr.current_battery)
       IN  msr' = IF best_station.kind # "None"
                  THEN [msr EXCEPT !.pc = "Traveling",
                                   !.route = Append(msr.route, best_station),
                                   !.current_pos = best_station,
                                   !.current_battery = 100]
                  ELSE [msr EXCEPT !.pc = "Arrived"]
    /\ UNCHANGED notPlanner

\* route.append(destination); return route
MsrArrive ==
    /\ msr.pc = "Arrived"
    /\ msr' = [msr EXCEPT !.pc = "done", !.kind = "ok",
                          !.route = Append(msr.route, msr.destination)]
    /\ UNCHANGED notPlanner

MsrReturn ==
    /\ msr.pc = "done"
    /\ msr' = MsrIdle
    /\ UNCHANGED notPlanner

PlannerNext ==
    \/ MsrStart
    \/ MsrCheck
    \/ MsrSelect
    \/ MsrArrive
    \/ MsrReturn

-----------------------------------------------------------------------------
\* ChargingOptimizer (app/ml_models/charging_optimizer.py)

\* The trained regressor is a fixed but unknown function of the feature
\* vector; these are the functions the search is checked against.
CostModels == {"flat", "peak", "weekend", "night", "negative", "huge"}

\* self.model.predict(feature_array)
RawCost(model, features) ==
    CASE model = "flat" -> I(120)
      [] model = "peak" -> I(100 + 80 * features.is_peak_hour)
      [] model = "weekend" -> I(100 - 40 * features.is_weekend)
      [] model = "night" -> IF features.hour < 6 THEN I(60) ELSE I(100)
      [] model = "negative" -> I(-5)
      [] model = "huge" -> I(1200 + features.hour)

\* ChargingOptimizer.predict_cost
PredictCost(model, features) == Clip(RawCost(model, features), I(0), I(1000))

\* 24 hourly grid carbon intensities, indexed by hour of day (hour h at h + 1)
Forecasts ==
    {[h \in 1..24 |-> 700],
     [h \in 1..24 |-> 350],
     [h \in 1..24 |-> IF h - 1 = 3 THEN 300 ELSE 700],
     [h \in 1..24 |-> IF h - 1 \in {2, 14} THEN 300 ELSE 700],
     [h \in 1..24 |-> 400 + 10 * (h - 1)]}

Infinity == [inf |-> TRUE, v |-> I(0)]
Finite(v) == [inf |-> FALSE, v |-> v]
\* cost <= best_cost in place of cost < best_cost
LessThanBest_OrEqual(cost, best) == best.inf \/ RLe(cost, best.v)
\* cost < best_cost
LessThanBest(cost, best) == best.inf \/ RLt(cost, best.v)

\* The slot the loop body looks at for one hour_offset: lines 68-87
CheckHour(current_hour, hour_offset) == (current_hour + hour_offset) % 24
CheckDay(day_of_week, hour_offset) ==
    IF hour_offset = 0 THEN day_of_week ELSE (day_of_week + 1) % 7
SlotFeatures(current_hour, day_of_week, distance_km, hour_offset) ==
    LET check_hour == CheckHour(current_hour, hour_offset)
        check_day == CheckDay(day_of_week, hour_offset)
    IN  [distance_km |-> distance_km, hour |-> check_hour, day_of_week |-> check_day,
         is_peak_hour |-> IF check_hour \in {7, 8, 17, 18, 19} THEN 1 ELSE 0,
         is_weekend |-> IF check_day \in {5, 6} THEN 1 ELSE 0,
         traffic_level |-> 1, avg_speed_kmh |-> 50]
\* The slot cost with the forecast indexed by hour_offset, not by check_hour.
SlotCost_IndexedByOffset(model, grid, current_hour, day_of_week, distance_km, hour_offset) ==
    LET cost == PredictCost(model, SlotFeatures(current_hour, day_of_week,
                                                distance_km, hour_offset))
    IN  IF hour_offset < Len(grid)
        THEN RMul(cost, Rat(grid[hour_offset + 1], 700))
        ELSE cost
SlotCost(model, grid, current_hour, day_of_week, distance_km, hour_offset) ==
    LET check_hour == CheckHour(current_hour, hour_offset)
        cost == PredictCost(model, SlotFeatures(current_hour, day_of_week,
                                                distance_km, hour_offset))
    IN  IF check_hour < Len(grid)
        THEN RMul(cost, Rat(grid[check_hour + 1], 700))
        ELSE cost

ChgIdle ==
    [pc |-> "idle", current_hour |-> 0, day_of_week |-> 0, distance_km |-> 0,
     model |-> "flat", grid |-> <<>>, hour_offset |-> 0, best_cost |-> Infinity,
     best_hour |-> 0, result |-> 0]

ChargingInit == chg = ChgIdle

\* find_optimal_charging_time(...): lines 67-68
ChgStart ==
    /\ chg.pc = "idle"
    /\ \E current_hour \in 0..23, day_of_week \in 0..6, model \in CostModels,
          grid \in Forecasts :
         chg' = [ChgIdle EXCEPT !.pc = "loop", !.current_hour = current_hour,
                                !.day_of_week = day_of_week, !.distance_km = 50,
                                !.model = model, !.grid = grid,
                                !.best_cost = Infinity, !.best_hour = current_hour]
    /\ UNCHANGED notCharging

\* One iteration of `for hour_offset in range(24)`
ChgStep ==
    /\ chg.pc = "loop"
    /\ chg.hour_offset < 24
    /\ LET cost == SlotCost(chg.model, chg.grid, chg.current_hour, chg.day_of_week,
                            chg.distance_km, chg.hour_offset)
       IN  chg' = IF LessThanBest(cost, chg.best_cost)
                  THEN [chg EXCEPT !.hour_offset = @ + 1,
                                   !.best_cost = Finite(cost),
                                   !.best_hour = CheckHour(chg.current_hour,
                                                           chg.hour_offset)]
                  ELSE [chg EXCEPT !.hour_offset = @ + 1]
    /\ UNCHANGED notCharging

\* return best_hour
ChgFinish ==
    /\ chg.pc = "loop"
    /\ chg.hour_offset = 24
    /\ chg' = [chg EXCEPT !.pc = "done", !.result = chg.best_hour]
    /\ UNCHANGED notCharging

ChgReturn ==
    /\ chg.pc = "done"
    /\ chg' = ChgIdle
    /\ UNCHANGED notCharging

ChargingNext ==
    \/ ChgStart
    \/ ChgStep
    \/ ChgFinish
    \/ ChgReturn

-----------------------------------------------------------------------------
\* CalculationService.calculate_eco_score (app/services/calculation_service.py)

\* A nullable numeric column of Trip: None, or a number.
Missing == [present |-> FALSE, v |-> 0]
Num(v) == [present |-> TRUE, v |-> v]

\* Python truthiness of a column value: None, 0 and 0.0 are false.
Truthy(x) == x.present /\ x.v # 0

\* Lines 33-38, on avg_speed
SpeedBonus(avg_speed) ==
    IF RLe(I(40), avg_speed) /\ RLe(avg_speed, I(80)) THEN 20
    ELSE IF RLe(I(30), avg_speed) /\ RLe(avg_speed, I(100)) THEN 15
    ELSE 5

\* Lines 43-48, on battery_used
BatteryBonus(battery_used) ==
    IF battery_used < 50 THEN 15
    ELSE IF battery_used < 70 THEN 10
    ELSE 5

\* The temperature bonus with -5 outside the ideal range.
TemperatureBonus_Penalty(temperature_celsius) ==
    IF 15 <= temperature_celsius /\ temperature_celsius <= 30 THEN 15 ELSE -5

\* Lines 52-55, on temperature_celsius
TemperatureBonus(temperature_celsius) ==
    IF 15 <= temperature_celsius /\ temperature_celsius <= 30 THEN 15 ELSE 5

Min(a, b) == IF a < b THEN a ELSE b

\* min(100, score)
CappedScore(score) == Min(100, score)

\* calculate_eco_score(trip)
EcoScore(trip) ==
    LET speed ==
            IF Truthy(trip.duration_minutes) /\ Truthy(trip.distance_km)
            THEN SpeedBonus(RMul(Rat(trip.distance_km.v, trip.duration_minutes.v),
                                 I(60)))
            ELSE 0
        battery ==
            IF Truthy(trip.start_battery_percentage)
               /\ Truthy(trip.end_battery_percentage)
            THEN BatteryBonus(trip.start_battery_percentage.v
                              - trip.end_battery_percentage.v)
            ELSE 0
        environment ==
            IF Truthy(trip.temperature_celsius)
            THEN TemperatureBonus(trip.temperature_celsius.v)
            ELSE 0
    IN  CappedScore(50 + speed + battery + environment)

\* The trips the score is computed for: every column None or a value around
\* the edges of the bonus ranges.
Trips ==
    [distance_km : {Missing} \cup {Num(v) : v \in {0, 5, 20, 30, 40, 80, 100, 120}},
     duration_minutes : {Missing} \cup {Num(v) : v \in {0, 40, 60}},
     start_battery_percentage : {Missing} \cup {Num(v) : v \in {0, 80, 100}},
     end_battery_percentage : {Missing} \cup {Num(v) : v \in {0, 10, 30, 50, 70}},
     temperature_celsius : {Missing} \cup {Num(v) : v \in {-5, 0, 14, 15, 22, 30, 31}}]

NoTrip ==
    [distance_km |-> Missing, duration_minutes |-> Missing,
     start_battery_percentage |-> Missing, end_battery_percentage |-> Missing,
     temperature_celsius |-> Missing]

EcoIdle == [op |-> "idle", trip |-> NoTrip, score |-> 0]

EcoInit == eco = EcoIdle

\* calc.calculate_eco_score(trip)
CalculateEcoScore ==
    /\ eco.op = "idle"
    /\ \E trip \in Trips :
         eco' = [op |-> "calculate_eco_score", trip |-> trip,
                 score |-> EcoScore(trip)]
    /\ UNCHANGED notEco

\* trip.eco_score = ...: the caller stores the score
EcoReturn ==
    /\ eco.op # "idle"
    /\ eco' = EcoIdle
    /\ UNCHANGED notEco

EcoNext ==
    \/ CalculateEcoScore
    \/ EcoReturn

-----------------------------------------------------------------------------
\* The trip routes of one user (app/routes/trips.py): the rows of the trips
\* table and the user's total_trips column.

\* The most trips created.
MaxTrips == 3

\* The largest value of total_trips followed.
MaxTotalTrips == 4

TripIds == 1..MaxTrips

\* total_trips = db.Column(db.Integer, default=0); no trip row exists
TripsInit ==
    tdb = [trips |-> [i \in TripIds |-> "none"], total_trips |-> 0, status |-> 0]

\* The id of the next row of the trips table.
NextTripId == 1 + Cardinality({i \in TripIds : tdb.trips[i] # "none"})

\* The rows that exist.
StoredTrips == {i \in TripIds : tdb.trips[i] \in {"started", "completed", "saved"}}

\* POST /api/trips/save.  data is "none" (no body), "bad" (a value float() or
\* int() rejects), "zero" (distance and duration both 0) or "ok".
SaveTrip ==
    /\ tdb.total_trips < MaxTotalTrips
    /\ \E data \in {"none", "bad", "zero", "ok"} :
         IF data \in {"none", "zero"}
         THEN tdb' = [tdb EXCEPT !.status = 400]
         ELSE IF data = "bad"
         THEN tdb' = [tdb EXCEPT !.status = 500]
         ELSE /\ NextTripId \in TripIds
              /\ tdb' = [tdb EXCEPT !.trips[NextTripId] = "saved",
                                    !.total_trips = @ + 1,
                                    !.status = 201]
    /\ UNCHANGED notTrips

\* POST /api/trips/start
StartTrip ==
    /\ \E vehicle_found \in BOOLEAN :
         IF ~vehicle_found
         THEN tdb' = [tdb EXCEPT !.status = 404]
         ELSE /\ NextTripId \in TripIds
              /\ tdb' = [tdb EXCEPT !.trips[NextTripId] = "started", !.status = 201]
    /\ UNCHANGED notTrips

\* POST /api/trips/<trip_id>/end.  A trip made by save_trip has no start
\* position and a body may lack the end position: haversine then raises and
\* nothing is committed.
EndTrip(trip_id) ==
    /\ tdb.total_trips < MaxTotalTrips
    /\ \E has_end_position \in BOOLEAN :
         IF trip_id \notin StoredTrips
         THEN tdb' = [tdb EXCEPT !.status = 404]
         ELSE IF tdb.trips[trip_id] = "saved" \/ ~has_end_position
         THEN tdb' = [tdb EXCEPT !.status = 500]
         ELSE tdb' = [tdb EXCEPT !.trips[trip_id] = "completed",
                                 !.total_trips = @ + 1,
                                 !.status = 200]
    /\ UNCHANGED notTrips

\* DELETE /api/trips/<trip_id>
DeleteTrip(trip_id) ==
    /\ IF trip_id \notin StoredTrips
       THEN tdb' = [tdb EXCEPT !.status = 404]
       ELSE tdb' = [tdb EXCEPT !.trips[trip_id] = "deleted", !.status = 200]
    /\ UNCHANGED notTrips

TripsNext ==
    \/ SaveTrip
    \/ StartTrip
    \/ \E trip_id \in TripIds : EndTrip(trip_id)
    \/ \E trip_id \in TripIds : DeleteTrip(trip_id)

-----------------------------------------------------------------------------
\* rate_limit (app/utils/decorators.py): the wrapper run by the threads of the
\* server for the requests of one client address.  A thread switch can fall
\* between any two statements of the wrapper.

\* max_calls of the decorated function
max_calls == 1

\* time_window of the decorated function, in clock ticks
time_window == 2

\* The last clock value followed.
MaxTime == 2

\* The most requests followed.
MaxRequests == 3

Threads == {"t1", "t2"}

Absent == "absent"

RlIdle ==
    [pc |-> "idle", now |-> 0, kept |-> <<>>, recorded |-> FALSE, ran |-> FALSE,
     status |-> 0]

\* rate_limit_cache = {}
RateInit ==
    rl = [cache |-> Absent, clock |-> 0, requests |-> 0,
          th |-> [t \in Threads |-> RlIdle],
          runs |-> [u \in 0..MaxTime |-> 0]]

\* [t for t in entries if now - t < time_window]
RECURSIVE Recent(_, _)
Recent(entries, now) ==
    IF entries = <<>> THEN <<>>
    ELSE IF now - Head(entries) < time_window
         THEN <<Head(entries)>> \o Recent(Tail(entries), now)
         ELSE Recent(Tail(entries), now)

\* now = time.time()
RlEnter(t) ==
    /\ rl.th[t].pc = "idle"
    /\ rl.requests < MaxRequests
    /\ rl' = [rl EXCEPT !.requests = @ + 1,
                        !.th[t] = [RlIdle EXCEPT !.pc = "clean", !.now = rl.clock]]
    /\ UNCHANGED notRate

\* if client_ip in rate_limit_cache: the list comprehension is evaluated;
\* else: rate_limit_cache[client_ip] = []
RlClean(t) ==
    /\ rl.th[t].pc = "clean"
    /\ rl' = IF rl.cache = Absent
             THEN [rl EXCEPT !.cache = <<>>, !.th[t].pc = "check"]
             ELSE [rl EXCEPT !.th[t].kept = Recent(rl.cache, rl.th[t].now),
                             !.th[t].pc = "store"]
    /\ UNCHANGED notRate

\* rate_limit_cache[client_ip] = <the new list>
RlStore(t) ==
    /\ rl.th[t].pc = "store"
    /\ rl' = [rl EXCEPT !.cache = rl.th[t].kept, !.th[t].pc = "check"]
    /\ UNCHANGED notRate

\* if len(rate_limit_cache[client_ip]) >= max_calls: return ..., 429
RlCheck(t) ==
    /\ rl.th[t].pc = "check"
    /\ rl' = IF Len(rl.cache) >= max_calls
             THEN [rl EXCEPT !.th[t].pc = "done", !.th[t].status = 429]
             ELSE [rl EXCEPT !.th[t].pc = "record"]
    /\ UNCHANGED notRate

\* rate_limit_cache[client_ip].append(now)
RlRecord(t) ==
    /\ rl.th[t].pc = "record"
    /\ rl' = [rl EXCEPT !.cache = Append(@, rl.th[t].now),
                        !.th[t].recorded = TRUE,
                        !.th[t].pc = "call"]
    /\ UNCHANGED notRate

\* return f(*args, **kwargs); the run is counted at the time of its request
RlCall(t) ==
    /\ rl.th[t].pc = "call"
    /\ rl' = [rl EXCEPT !.runs[rl.th[t].now] = @ + 1,
                        !.th[t].ran = TRUE,
                        !.th[t].status = 200,
                        !.th[t].pc = "done"]
    /\ UNCHANGED notRate

\* The response is sent.
RlReturn(t) ==
    /\ rl.th[t].pc = "done"
    /\ rl' = [rl EXCEPT !.th[t] = RlIdle]
    /\ UNCHANGED notRate

\* Time passes.
RlTick ==
    /\ rl.clock < MaxTime
    /\ rl' = [rl EXCEPT !.clock = @ + 1]
    /\ UNCHANGED notRate

RateNext ==
    \/ \E t \in Threads : RlEnter(t)
    \/ \E t \in Threads : RlClean(t)
    \/ \E t \in Threads : RlStore(t)
    \/ \E t \in Threads : RlCheck(t)
    \/ \E t \in Threads : RlRecord(t)
    \/ \E t \in Threads : RlCall(t)
    \/ \E t \in Threads : RlReturn(t)
    \/ RlTick

-----------------------------------------------------------------------------
\* Specifications: one per component, over the same state.

Init ==
    /\ SvcInit /\ ScorerInit /\ PlannerInit /\ ChargingInit /\ EcoInit
    /\ RaceInit /\ BootInit /\ TripsInit /\ RateInit

Next == SvcNext

\* The prediction service.
Spec == Init /\ [][Next]_vars

\* The route scorer, its calls issued one at a time.
ScorerSpec == Init /\ [][ScorerNext]_vars

\* The multi-stop planner.
PlannerSpec == Init /\ [][PlannerNext]_vars

\* The optimal charging time search.
ChargingSpec == Init /\ [][ChargingNext]_vars

\* The eco-score calculation.
EcoSpec == Init /\ [][EcoNext]_vars

\* The route scorer shared by two threads.
RaceSpec == Init /\ [][RaceNext]_vars

\* The application from create_app to the serving of prediction requests.
StartupSpec == Init /\ [][StartupNext]_vars

\* The trip routes, one request at a time.
TripsSpec == Init /\ [][TripsNext]_vars

\* The rate limiter under concurrent requests of one client.
RateSpec == Init /\ [][RateNext]_vars

-----------------------------------------------------------------------------
\* Properties of the service

\* The service routes range / air-quality calls to its predictor.
RangeAvailable == models_available /\ range_predictor.obj
AirAvailable == models_available /\ air_quality_predictor.obj

\* The call in flight reached model.predict.
RangeModelRan ==
    /\ RangeAvailable
    /\ range_predictor.model_available /\ range_predictor.model # None
    /\ RangeModelKeys \subseteq DOMAIN call.features
AirModelRan ==
    /\ AirAvailable
    /\ air_quality_predictor.model_available /\ air_quality_predictor.model # None
    /\ AirModelKeys \subseteq DOMAIN call.features

RangeRequired == {"current_battery", "distance_km", "temperature", "vehicle_age"}

\* C1: once initialize() has completed, the availability flag and the two
\* predictor handles are what that initialize() left, whatever was called since.
C1_StateIsInitializeOutcome ==
    init_outcome.done =>
        Outcome(models_available, range_predictor, air_quality_predictor)
            = init_outcome

\* C2: on an unavailable service predict_range returns what
\* RangePredictor._predict_fallback returns for the same features (error or
\* value and confidence 0.70).
C2_UnavailableRangeIsFallback ==
    (call.op = "predict_range" /\ ~RangeAvailable) =>
        LET fb == RangeFallback(call.features)
        IN  /\ call.result.kind = fb.kind
            /\ call.result.value = fb.value
            /\ call.result.conf = fb.conf

\* C3: a range prediction whose features lack a required field ends in an
\* error, on every path.
C3_MissingFieldRaises ==
    (call.op = "predict_range" /\ ~(RangeRequired \subseteq DOMAIN call.features)) =>
        call.result.kind = "raise"

C10_UnavailableAirIsFallback ==
    (call.op = "predict_air_quality" /\ ~AirAvailable) =>
        LET fb == AirFallback(call.features)
        IN  /\ call.result.kind = fb.kind
            /\ call.result.value = fb.value
            /\ call.result.level = fb.level

\* C11: every (pm25, level) pair an air-quality prediction returns, on the
\* model path, the predictor's fallback or the service's own fallback, has
\* pm25 in [0, 500] and the level of its band: <= 12 GOOD, <= 35 MODERATE,
\* <= 55 UNHEALTHY_FOR_SENSITIVE, <= 150 UNHEALTHY, above HAZARDOUS.
C11_LevelIsBand ==
    (call.op = "predict_air_quality" /\ call.result.kind = "ok") =>
        LET pm25 == call.result.value
            level == call.result.level
        IN  /\ RLe(I(0), pm25) /\ RLe(pm25, I(500))
            /\ level = "GOOD" <=> RLe(pm25, I(12))
            /\ level = "MODERATE" <=> (RLt(I(12), pm25) /\ RLe(pm25, I(35)))
            /\ level = "UNHEALTHY_FOR_SENSITIVE" <=>
                  (RLt(I(35), pm25) /\ RLe(pm25, I(55)))
            /\ level = "UNHEALTHY" <=> (RLt(I(55), pm25) /\ RLe(pm25, I(150)))
            /\ level = "HAZARDOUS" <=> RLt(I(150), pm25)

\* The call in flight was answered by RangePredictor._predict_fallback
\* because the predictor holds no model.
RangeFallbackRan ==
    /\ call.op = "predict_range"
    /\ RangeAvailable
    /\ ~(range_predictor.model_available /\ range_predictor.model # None)

\* The features _predict_fallback subscripts.
RangeFallbackKeys == {"current_battery", "distance_km", "temperature"}

\* C12: for valid features (current_battery in [0, 100], distance_km >= 0,
\* battery_capacity > 0) the RangePredictor fallback returns a percentage in
\* [0, 100] with confidence exactly 0.70.
C12_FallbackInRange ==
    (RangeFallbackRan /\ RangeFallbackKeys \subseteq DOMAIN call.features) =>
        /\ call.result = RangeFallback(call.features)
        /\ call.result.kind = "ok"
        /\ RLe(I(0), call.result.value) /\ RLe(call.result.value, I(100))
        /\ call.result.conf = Rat(70, 100)

\* C12 witness: the fallback answered a trip that needs more than the battery
\* holds (20 percent, 450 km) with 0 percent and confidence 0.70.
C12_Witness ==
    /\ RangeFallbackRan
    /\ RangeFallbackKeys \subseteq DOMAIN call.features
    /\ call.features["current_battery"] = I(20)
    /\ call.features["distance_km"] = I(450)
    /\ call.result.kind = "ok" /\ call.result.path = "fallback"
    /\ call.result.value = I(0)
    /\ call.result.conf = Rat(70, 100)

\* Scenario A of the range fallback.
RangeScenarioA ==
    [current_battery |-> I(80), distance_km |-> I(50), temperature |-> I(25),
     vehicle_age |-> I(3), battery_capacity |-> I(60), efficiency |-> Rat(14, 100),
     traffic |-> "medium", hour |-> I(12), day_of_week |-> I(2)]

\* current_battery - distance_km * efficiency / battery_capacity * 100 with
\* the defaults 60 and 0.14, times 0.85 below 0 degrees or 0.90 above 40,
\* then clipped to [0, 100].
StatedFallback(f) ==
    LET capacity == IF "battery_capacity" \in DOMAIN f THEN f["battery_capacity"]
                    ELSE I(60)
        efficiency == IF "efficiency" \in DOMAIN f THEN f["efficiency"]
                      ELSE Rat(14, 100)
        predicted ==
            RSub(f["current_battery"],
                 RDiv(RMul(RMul(f["distance_km"], efficiency), I(100)), capacity))
        factor == IF RLt(f["temperature"], I(0)) THEN Rat(85, 100)
                  ELSE IF RLt(I(40), f["temperature"]) THEN Rat(90, 100)
                  ELSE I(1)
        penalised == RMul(predicted, factor)
    IN  IF RLt(penalised, I(0)) THEN I(0)
        ELSE IF RLt(I(100), penalised) THEN I(100)
        ELSE penalised

\* C22: the RangePredictor fallback subtracts the consumption (defaults
\* capacity 60, efficiency 0.14), applies the temperature penalty (0.85 below
\* 0, 0.90 above 40, never both) to the subtracted value and then clips to
\* [0, 100]; scenario A gives 68.33 (205/3) with confidence 0.70.
C22_FallbackFormula ==
    (RangeFallbackRan /\ RangeFallbackKeys \subseteq DOMAIN call.features) =>
        /\ call.result.kind = "ok"
        /\ call.result.value = StatedFallback(call.features)
        /\ call.features = RangeScenarioA =>
              (call.result.value = Rat(205, 3) /\ call.result.conf = Rat(70, 100))

\* C22 witness: the fallback answered a trip at -5 degrees with the penalty on
\* the subtracted value: (80 - 50 * 0.14 / 60 * 100) * 0.85 = 697/12.
C22_Witness ==
    /\ RangeFallbackRan
    /\ call.features = [RangeScenarioA EXCEPT !["temperature"] = I(-5)]
    /\ call.result.kind = "ok" /\ call.result.path = "fallback"
    /\ call.result.value = Rat(697, 12)

\* The calls the call in flight is compared with: scenario A, and scenario A
\* over 150 km or at 45 degrees.
OtherCalls ==
    {RangeScenarioA, [RangeScenarioA EXCEPT !["distance_km"] = I(150)],
     [RangeScenarioA EXCEPT !["temperature"] = I(45)]}

\* C23: on each path of range prediction (model, predictor fallback, service
\* fallback) the confidence is one constant in [0, 1]: any other call that
\* takes the same path returns the same confidence, whatever its features.
C23_ConfidenceFixedPerPath ==
    (call.op = "predict_range" /\ call.result.kind = "ok") =>
        /\ RLe(I(0), call.result.conf) /\ RLe(call.result.conf, I(1))
        /\ \A g \in OtherCalls :
              \A i \in InferChoices(models_available, range_predictor, RangeInfer) :
                 LET r == ServicePredictRange(models_available, range_predictor, g, i)
                 IN  (r.kind = "ok" /\ r.path = call.result.path) =>
                         r.conf = call.result.conf

\* C23 as amended: the confidence is 0.70 on the predictor's fallback path and
\* 0.75 on the service's fallback; on the model path it is 0.87, times 0.95
\* when distance_km > 100, times 0.85 when temperature < 0 or > 40; it is
\* always in [0, 1].
C23_ConfidencePerPathAndRange ==
    (call.op = "predict_range" /\ call.result.kind = "ok") =>
        LET f == call.features
            far == RLt(I(100), f["distance_km"])
            extreme == RLt(f["temperature"], I(0)) \/ RLt(I(40), f["temperature"])
        IN  /\ RLe(I(0), call.result.conf) /\ RLe(call.result.conf, I(1))
            /\ call.result.path \in {"model", "fallback", "mock"}
            /\ call.result.path = "fallback" => call.result.conf = Rat(70, 100)
            /\ call.result.path = "mock" => call.result.conf = Rat(75, 100)
            /\ call.result.path = "model" =>
                  call.result.conf =
                      (IF far /\ extreme THEN Rat(87 * 95 * 85, 1000000)
                       ELSE IF far THEN Rat(87 * 95, 10000)
                       ELSE IF extreme THEN Rat(87 * 85, 10000)
                       ELSE Rat(87, 100))

\* C23 witness: a model-path prediction for 150 km at 45 degrees returned
\* confidence 0.87 * 0.95 * 0.85.
C23_Witness ==
    /\ call.op = "predict_range"
    /\ call.result.kind = "ok" /\ call.result.path = "model"
    /\ call.features["distance_km"] = I(150)
    /\ call.features["temperature"] = I(45)
    /\ call.result.conf = Rat(702525, 1000000)

RouteChosen == opt.pc = "done" /\ opt.kind = "ok" /\ opt.routes # <<>>

\* The positions of the candidates whose score under w is the minimum.
MinimumPositions(routes, w) ==
    LET scores == Scores(routes, w)
    IN  {i \in 1..Len(routes) : \A j \in 1..Len(routes) : RLe(scores[i], scores[j])}

\* The orders in which a list of n candidates can be given.
Orders(n) == {p \in [1..n -> 1..n] : \A i, j \in 1..n : p[i] = p[j] => i = j}

\* The candidates of routes in the order p.
Reordered(routes, p) == [i \in 1..Len(routes) |-> routes[p[i]]]

\* C26: among the candidates with the minimum score optimize_route returns
\* the id of the first in the list; when only one candidate has the minimum,
\* the same candidate is chosen in whatever order the list is given.
C26_TieGoesToFirst ==
    RouteChosen =>
        LET tied == MinimumPositions(opt.routes, opt.read)
        IN  /\ \E i \in tied : opt.id = RouteId(i)
            /\ \A i \in tied : opt.id <= RouteId(i)
            /\ Cardinality(tied) = 1 =>
                  \A p \in Orders(Len(opt.routes)) :
                     p[ArgMin(Reordered(opt.routes, p), opt.read)] = opt.id

\* C26 witness: two different candidates tie at the minimum and the first is
\* returned.
C26_Witness ==
    /\ RouteChosen
    /\ Len(opt.routes) = 2
    /\ opt.routes[1] # opt.routes[2]
    /\ MinimumPositions(opt.routes, opt.read) = {1, 2}
    /\ opt.id = RouteId(1)

\* C27: after a set_weights call that returned normally the stored weights
\* have all four keys, and optimize_route on a non-empty list returns an id.
C27_StoredWeightsComplete ==
    /\ (sw.op = "set_weights" /\ sw.kind = "ok") => DOMAIN weights = WeightKeys
    /\ (opt.pc = "done" /\ opt.routes # <<>>) => opt.kind = "ok"

\* C28: a set_weights call that fails on weights summing to zero leaves the
\* stored weights as they were, and optimize_route ranks with the stored
\* weights.
C28_FailedSetWeightsKeepsWeights ==
    [][/\ (sw.op = "idle" /\ sw'.op = "set_weights" /\ sw'.kind = "raise")
            => weights' = weights
       /\ (opt.pc = "argmin" /\ opt'.pc = "done")
            => opt'.id = RouteId(ArgMin(opt.routes, weights))]_vars

\* C28 witness: set_weights has failed on the scorer holding weights stored
\* by an earlier call.
C28_Witness ==
    /\ sw.op = "set_weights"
    /\ sw.kind = "raise"
    /\ SumOver(sw.input, DOMAIN sw.input) = 0
    /\ weights # DefaultWeights

\* C29: total_trips is the number of the user's stored trips that were saved
\* or completed, after any sequence of trip requests.
C29_TotalTripsCountsStoredTrips ==
    tdb.total_trips =
        Cardinality({i \in StoredTrips : tdb.trips[i] \in {"saved", "completed"}})

\* The runs of the wrapped function for requests made at the time_window
\* clock values from s on.
RECURSIVE RunsFrom(_, _)
RunsFrom(s, n) ==
    IF n = 0 \/ s > MaxTime THEN 0
    ELSE rl.runs[s] + RunsFrom(s + 1, n - 1)

\* C30: within any window of time_window the wrapped function runs at most
\* max_calls times, under every interleaving; a request answered with 429 has
\* not run the function and is not recorded.
C30_AtMostMaxCallsPerWindow ==
    /\ \A s \in 0..MaxTime : RunsFrom(s, time_window) <= max_calls
    /\ \A t \in Threads :
          rl.th[t].status = 429 => ~rl.th[t].ran /\ ~rl.th[t].recorded

\* C25: in the start-up sequence initialize() has completed before a
\* prediction request is served, and every prediction request is served by
\* the service in the state that initialize() left.
C25_ServedInInitializedState ==
    (boot = "serving" /\ call.op # "idle") =>
        /\ init_outcome.done
        /\ Outcome(models_available, range_predictor, air_quality_predictor)
             = init_outcome

\* initialize() recorded Unavailable, and the service still is.
RecordedUnavailable ==
    /\ init_outcome.done
    /\ ~init_outcome.models_available
    /\ ~models_available

\* C16: once initialize() has recorded Unavailable, no later step (another
\* initialize(), MLService(), a prediction call) makes the service available.
C16_UnavailableStaysUnavailable ==
    [][RecordedUnavailable => ~models_available']_vars

\* The last initialize() loaded the model of exactly one predictor.
OnlyRangeLoaded ==
    /\ init_outcome.done /\ init_outcome.models_available
    /\ init_outcome.range_predictor.model_available
    /\ ~init_outcome.air_quality_predictor.model_available
OnlyAirLoaded ==
    /\ init_outcome.done /\ init_outcome.models_available
    /\ ~init_outcome.range_predictor.model_available
    /\ init_outcome.air_quality_predictor.model_available

\* C17: after an initialize() in which one predictor's construction failed
\* and the other's succeeded, the other predictor is available and its
\* prediction calls are answered by it, not by the service's own fallback.
C17_AvailabilityIsPerPredictor ==
    /\ OnlyRangeLoaded =>
          /\ RangeAvailable /\ range_predictor.model_available
          /\ call.op = "predict_range" => call.result.path # "mock"
    /\ OnlyAirLoaded =>
          /\ AirAvailable /\ air_quality_predictor.model_available
          /\ call.op = "predict_air_quality" => call.result.path # "mock"

\* C18: initialize() never raises, whichever step fails, and afterwards
\* predict_range and predict_air_quality return a result.
C18_InitializeNeverRaises ==
    init_outcome.done =>
        /\ ~init_outcome.raised
        /\ call.op # "idle" => call.result.kind = "ok"

\* C18 witness: after an initialize() whose import failed, a range prediction
\* returned a result.
C18_Witness ==
    /\ init_outcome.done /\ ~init_outcome.raised
    /\ ~init_outcome.models_available
    /\ init_outcome.range_predictor = NoPredictor
    /\ call.op = "predict_range"
    /\ call.result.kind = "ok"

-----------------------------------------------------------------------------
\* Properties of the multi-stop planner

\* The positions of the route that hold charging stops: everything after the
\* start, and before the destination once it has been appended.
StopIndexes ==
    2..(IF msr.pc = "done" /\ msr.kind = "ok" THEN Len(msr.route) - 1
        ELSE Len(msr.route))

\* C5: get_multi_stop_route ends by returning a route from start to
\* destination; it does not fail.
C5_RouteReachesDestination ==
    msr.pc = "done" =>
        /\ msr.kind = "ok"
        /\ Head(msr.route) = msr.start
        /\ msr.route[Len(msr.route)] = msr.destination

\* C6: every stop of the route is one station of the input list, the nearest
\* to the destination among those not used before it; the battery is 100
\* after a stop and no station is used twice.
C6_StopsAreNearestStations ==
    /\ \A i \in StopIndexes :
          /\ msr.route[i].kind = "dict"
          /\ \E j \in 1..Len(msr.stations) : msr.stations[j] = msr.route[i]
          /\ \A j \in 1..Len(msr.stations) :
                (\A k \in 2..(i - 1) : msr.route[k] # msr.stations[j]) =>
                    Dist2(msr.route[i], msr.destination)
                        <= Dist2(msr.stations[j], msr.destination)
          /\ \A k \in 2..(i - 1) : msr.route[k] # msr.route[i]
    /\ (msr.pc = "Traveling" /\ Len(msr.route) > 1) => msr.current_battery = 100

\* C19: with no stations, or with start less than 5 degrees (Euclidean) from
\* the destination, get_multi_stop_route returns exactly [start, destination]
\* whatever the starting battery, and does not fail.
C19_NoStopRoute ==
    (msr.pc = "done"
       /\ (msr.stations = <<>> \/ Dist2(msr.start, msr.destination) < 5 * 5)) =>
        /\ msr.kind = "ok"
        /\ msr.route = <<msr.start, msr.destination>>

\* C19 witness: 15 percent of battery, a destination 20 degrees away and no
\* station: [start, destination] was returned.
C19_Witness ==
    /\ msr.pc = "done" /\ msr.kind = "ok"
    /\ msr.stations = <<>>
    /\ msr.start.battery = 15
    /\ Dist2(msr.start, msr.destination) = 20 * 20
    /\ msr.route = <<msr.start, msr.destination>>

-----------------------------------------------------------------------------
\* Properties of the route scorer

MetricValues(routes, m) == [j \in 1..Len(routes) |-> routes[j][m]]
Metrics == {"time_minutes", "cost_rupees", "co2_grams", "avg_aqi"}
ScenarioA == Candidate(30, 50, 2000, 78)
ScenarioB == Candidate(20, 80, 1500, 90)

\* C7: on a non-empty list (and weights holding the four keys) optimize_route
\* returns the id of a candidate of minimum weighted score; a metric all
\* candidates tie on contributes 0; with equal weights scenario A, B gives B.
C7_OptimizeRouteMinimizes ==
    (opt.pc = "done" /\ opt.routes # <<>> /\ WeightKeys \subseteq DOMAIN weights) =>
        /\ opt.kind = "ok"
        /\ \E i \in 1..Len(opt.routes) :
              /\ opt.id = RouteId(i)
              /\ \A j \in 1..Len(opt.routes) :
                    RLe(Score(opt.routes, weights, i), Score(opt.routes, weights, j))
        /\ \A m \in Metrics :
              LET v == MetricValues(opt.routes, m)
              IN  (\A j \in 1..Len(v) : v[j] = v[1]) =>
                      \A j \in 1..Len(v) : Norm(v, j) = I(0)
        /\ (opt.routes = <<ScenarioA, ScenarioB>> /\ weights = DefaultWeights) =>
              opt.id = RouteId(2)

\* C7 witness: scenario C has been ranked and B (the second candidate) won.
C7_Witness ==
    /\ opt.pc = "done" /\ opt.kind = "ok"
    /\ opt.routes = <<ScenarioA, ScenarioB>>
    /\ weights = DefaultWeights
    /\ opt.id = RouteId(2)

\* C8: set_weights with four positive weights stores each input divided by
\* the sum, and the stored weights add up to 1; weights that sum to zero end
\* in an error and nothing is stored.
C8_SetWeightsNormalizes ==
    sw.op = "set_weights" =>
        LET total == SumOver(sw.input, DOMAIN sw.input)
        IN  /\ (DOMAIN sw.input = WeightKeys /\ \A k \in WeightKeys : sw.input[k] > 0) =>
                  /\ sw.kind = "ok"
                  /\ DOMAIN weights = WeightKeys
                  /\ \A k \in WeightKeys : RMul(weights[k], I(total)) = I(sw.input[k])
                  /\ RSumOver(weights, WeightKeys) = I(1)
            /\ total = 0 => sw.kind = "raise"
            /\ sw.kind = "raise" => total = 0

\* C8 witness: unequal positive weights were stored normalized.
C8_Witness ==
    /\ sw.op = "set_weights" /\ sw.kind = "ok"
    /\ sw.input = [time |-> 2, cost |-> 1, carbon |-> 1, air_quality |-> 1]
    /\ weights["time"] = Rat(2, 5)

\* C15: optimize_route on an empty candidate list returns the sentinel id 0
\* and does not raise, whatever weights are stored.
C15_EmptyListGivesSentinel ==
    (opt.pc = "done" /\ opt.routes = <<>>) => (opt.kind = "ok" /\ opt.id = 0)

\* C15 witness: the empty list was answered with 0 while the stored weights
\* lack a key optimize_route would subscript.
C15_Witness ==
    /\ opt.pc = "done" /\ opt.routes = <<>>
    /\ opt.kind = "ok" /\ opt.id = 0
    /\ ~(WeightKeys \subseteq DOMAIN weights)

\* The weight sets optimize_route could have seen: the one stored when it
\* started and those stored since.
SeenWeights == {race.old} \cup {race.stored[i] : i \in 1..Len(race.stored)}

\* The weights the call used are, for some metrics, those stored at its
\* start and, for the others, those stored last, and equal neither set.
MixedRead ==
    /\ race.stored # <<>>
    /\ LET new == race.stored[Len(race.stored)]
       IN  /\ \E k \in WeightKeys : opt.read[k] = race.old[k] /\ opt.read[k] # new[k]
           /\ \E k \in WeightKeys : opt.read[k] = new[k] /\ opt.read[k] # race.old[k]

\* C20: on a shared RouteOptimizer every weight optimize_route uses was
\* stored at its start or by a set_weights since; with no set_weights in
\* between it ranks with the weights of its start, and with one it can rank
\* with other weights, also a mix of old and new ones (C20_Witness).
C20_RaceAppliesOtherWeights ==
    (opt.pc = "done" /\ opt.routes # <<>>) =>
        /\ opt.kind = "ok"
        /\ \A k \in WeightKeys : \E w \in SeenWeights : opt.read[k] = w[k]
        /\ race.stored = <<>> =>
              /\ opt.read = race.old
              /\ opt.id = RouteId(ArgMin(opt.routes, race.old))

\* C20 witness: optimize_route ranked with a mix of old and new weights and
\* returned an id that neither the old nor the new weights give.
C20_Witness ==
    /\ opt.pc = "done" /\ opt.kind = "ok"
    /\ MixedRead
    /\ opt.id # RouteId(ArgMin(opt.routes, race.old))
    /\ opt.id # RouteId(ArgMin(opt.routes, race.stored[Len(race.stored)]))

-----------------------------------------------------------------------------
\* Properties of the charging time search

ConstantCost ==
    \A o \in 0..23 :
        PredictCost(chg.model, SlotFeatures(chg.current_hour, chg.day_of_week,
                                            chg.distance_km, o))
          = PredictCost(chg.model, SlotFeatures(chg.current_hour, chg.day_of_week,
                                                chg.distance_km, 0))
ConstantForecast == \A h \in 1..Len(chg.grid) : chg.grid[h] = chg.grid[1]

\* C9: find_optimal_charging_time returns an hour in 0..23, and current_hour
\* when the predicted cost and the forecast are both constant.
C9_BestHourInRange ==
    chg.pc = "done" =>
        /\ chg.result \in 0..23
        /\ (ConstantCost /\ ConstantForecast) => chg.result = chg.current_hour

\* C9 witness: a constant-cost, constant-forecast search started at 17h has
\* returned 17.
C9_Witness ==
    /\ chg.pc = "done"
    /\ ConstantCost /\ ConstantForecast
    /\ chg.current_hour = 17
    /\ chg.result = 17

\* The weighted cost of the slot hour_offset hours after current_hour: the
\* predicted cost times the forecast of that hour of day over 700.
WeightedSlotCost(hour_offset) ==
    RMul(PredictCost(chg.model, SlotFeatures(chg.current_hour, chg.day_of_week,
                                             chg.distance_km, hour_offset)),
         Rat(chg.grid[((chg.current_hour + hour_offset) % 24) + 1], 700))

\* C21: find_optimal_charging_time returns the hour of a slot of minimum
\* weighted cost among the 24 scanned, and among those slots the one with the
\* smallest hour_offset from current_hour.
C21_FirstCheapestSlot ==
    chg.pc = "done" =>
        \E o \in 0..23 :
            /\ chg.result = (chg.current_hour + o) % 24
            /\ \A q \in 0..23 : RLe(WeightedSlotCost(o), WeightedSlotCost(q))
            /\ \A q \in 0..(o - 1) : RLt(WeightedSlotCost(o), WeightedSlotCost(q))

\* C21 witness: the cheapest slots are 2h and 14h; scanned from 10h the
\* search returned 14, the first reached, not the smaller hour.
C21_Witness ==
    /\ chg.pc = "done"
    /\ chg.model = "flat"
    /\ chg.grid = [h \in 1..24 |-> IF h - 1 \in {2, 14} THEN 300 ELSE 700]
    /\ chg.current_hour = 10
    /\ chg.result = 14

-----------------------------------------------------------------------------
\* Properties of the eco-score

\* Scenario D: 30 km in 40 minutes, 10 percent of battery used, 22 degrees.
ScenarioD ==
    [distance_km |-> Num(30), duration_minutes |-> Num(40),
     start_battery_percentage |-> Num(80), end_battery_percentage |-> Num(70),
     temperature_celsius |-> Num(22)]

\* The speed term is defined: its inputs are missing, or the duration is not 0.
SpeedDefined(trip) ==
    ~(trip.duration_minutes.present /\ trip.distance_km.present
      /\ trip.duration_minutes.v = 0)

\* The score with a term for every input that is present (not None).
PresentTermsScore(trip) ==
    LET speed ==
            IF trip.duration_minutes.present /\ trip.distance_km.present
            THEN LET avg_speed == RMul(Rat(trip.distance_km.v,
                                           trip.duration_minutes.v), I(60))
                 IN  IF RLe(I(40), avg_speed) /\ RLe(avg_speed, I(80)) THEN 20
                     ELSE IF RLe(I(30), avg_speed) /\ RLe(avg_speed, I(100)) THEN 15
                     ELSE 5
            ELSE 0
        battery ==
            IF trip.start_battery_percentage.present
               /\ trip.end_battery_percentage.present
            THEN LET used == trip.start_battery_percentage.v
                             - trip.end_battery_percentage.v
                 IN  IF used < 50 THEN 15 ELSE IF used < 70 THEN 10 ELSE 5
            ELSE 0
        temperature ==
            IF trip.temperature_celsius.present
            THEN IF trip.temperature_celsius.v \in 15..30 THEN 15 ELSE 5
            ELSE 0
    IN  Min(100, 50 + speed + battery + temperature)

\* C13: calculate_eco_score is min(100, 50 + the bonus of every term whose
\* inputs are present), a present 0 included; a term is left out only when
\* an input is missing; scenario D scores 100.
C13_EcoScoreAddsPresentTerms ==
    (eco.op = "calculate_eco_score" /\ SpeedDefined(eco.trip)) =>
        /\ eco.score = PresentTermsScore(eco.trip)
        /\ eco.trip = ScenarioD => eco.score = 100

\* C14: whatever inputs of the trip are present or missing, the score
\* calculate_eco_score returns is in [50, 100].
C14_EcoScoreInRange ==
    eco.op = "calculate_eco_score" => (eco.score >= 50 /\ eco.score <= 100)

\* C14 witness: a trip that has only a temperature, outside the ideal range,
\* scored 55; the other terms were left out.
C14_Witness ==
    /\ eco.op = "calculate_eco_score"
    /\ eco.trip = [NoTrip EXCEPT !.temperature_celsius = Num(-5)]
    /\ eco.score = 55

=============================================================================
